---- MODULE Spec2Model ----
(***************************************************************************)
(* A model of the WhatsApp gateway's delivery queue (utils/messageQueue)   *)
(* and of the session service (services/whatsappService.js).               *)
(*                                                                         *)
(* JavaScript runs each callback to completion, so one action is one       *)
(* callback together with the promise continuations it releases: a public  *)
(* method call, the return of an awaited external call, or a timer.        *)
(***************************************************************************)
EXTENDS Integers, Sequences, FiniteSets, TLC

(* ------------------------------ bounds -------------------------------- *)
\* messages ever submitted to the queue
MaxMsgs == 3
\* largest configured config.queue.maxRetries explored
MaxRetriesCfg == 2
\* largest configured config.queue.concurrency explored
MaxConcurrencyCfg == 2
\* messages submitted in the runs checked for liveness
LiveMsgs == 2
\* slots for concurrently active invocations of process() past its guard
MaxLoops == 2

\* invocations of _initialize() (each creates at most one Client)
MaxAttempts == 2
\* calls of connect()
MaxCalls == 2
\* messages submitted through the service (admin notices and sendMessage)
SvcMsgs == 1

\* config.queue defaults
DefaultMaxRetries == 3
DefaultConcurrency == 1

Msg == 1..MaxMsgs
Loops == 1..MaxLoops
\* an attempt and the Client object it creates share their number
Attempt == 1..MaxAttempts

VARIABLES
    \* config.queue (fixed per process)
    maxRetries, concurrency,
    \* MessageQueue fields
    queue, processing, messagesSent, messagesQueued, messagesFailed,
    \* per message object: msg.attempts, and the state of the promise whose
    \* resolve/reject the message object carries
    attempts, handle,
    \* every msg.resolve / msg.reject invocation, in order
    settleLog,
    \* the Send Adapter's side: what finally became of the message, and how
    \* often sendFunction threw for it
    fate, sendFailures,
    \* the invocations of process() that are past the guard: where each is
    \* (loopPhase), its local `batch`, and the state of each processMessage promise
    loopPhase, batch, results,
    \* the value returned by the last clear()
    count,
    \* WhatsAppService fields (0 stands for null)
    client, isInitialized, initializationPromise,
    \* mongoose.connection.readyState, config.whatsapp.clientLifetime
    mongoReady, clientLifetime,
    \* each _initialize() invocation: where it is, how its promise settled,
    \* the client it returned, the client its once-handlers are registered on
    initPc, initResult, initValue, onceOn,
    \* each Client object's condition, and its ready handler's pending
    \* continuation (after getWWebVersion)
    clientState, readyTask,
    \* the lifetime timer armed by each attempt ("none": not armed, "fired":
    \* its callback has ended), and the admin message its callback awaits
    timer, timerMsg,
    \* the promise each connect() call returned, in call order
    calls,
    \* logout() / destroy() in flight (the client called, 0 = none), and what
    \* the last completed logout(), destroy() or sendMessage() call returned
    logoutPc, destroyPc, returned,
    \* the POST /send handler in flight: the connect() promise it awaits and
    \* the message whose result it awaits (0 = none)
    sendReq, sendMsg

qvars == <<maxRetries, concurrency, queue, processing, messagesSent,
           messagesQueued, messagesFailed, attempts, handle, settleLog,
           fate, sendFailures, loopPhase, batch, results, count>>

svars == <<client, isInitialized, initializationPromise, mongoReady,
           clientLifetime, initPc, initResult, initValue, onceOn, clientState,
           readyTask, timer, timerMsg, calls, logoutPc, destroyPc,
           returned, sendReq, sendMsg>>

vars == <<qvars, svars>>

(* ------------------------------ helpers ------------------------------- *)
Min(a, b) == IF a < b THEN a ELSE b

Range(f) == {f[i] : i \in DOMAIN f}

\* Array.prototype.splice(0, n): the removed prefix, and what is left
TakeAll(q, n) == q
Take(q, n) == SubSeq(q, 1, Min(n, Len(q)))
DropNone(q, n) == q
Drop(q, n) == SubSeq(q, Min(n, Len(q)) + 1, Len(q))

\* the queue object, its messages and its active loops as one value
QState ==
    [queue |-> queue, processing |-> processing, messagesSent |-> messagesSent,
     messagesQueued |-> messagesQueued, messagesFailed |-> messagesFailed,
     attempts |-> attempts, handle |-> handle, settleLog |-> settleLog,
     fate |-> fate, sendFailures |-> sendFailures,
     loopPhase |-> loopPhase, batch |-> batch, results |-> results, count |-> count]

SetQState(s) ==
    /\ queue' = s.queue
    /\ processing' = s.processing
    /\ messagesSent' = s.messagesSent
    /\ messagesQueued' = s.messagesQueued
    /\ messagesFailed' = s.messagesFailed
    /\ attempts' = s.attempts
    /\ handle' = s.handle
    /\ settleLog' = s.settleLog
    /\ fate' = s.fate
    /\ sendFailures' = s.sendFailures
    /\ loopPhase' = s.loopPhase
    /\ batch' = s.batch
    /\ results' = s.results
    /\ count' = s.count
    /\ UNCHANGED <<maxRetries, concurrency>>

(* --------------------------- MessageQueue ----------------------------- *)
\* a promise settles once: later resolve/reject calls have no effect
resolveHandle(h) == IF h = "pending" THEN "resolved" ELSE h
rejectHandle(h, reason) == IF h = "pending" THEN reason ELSE h

\* process(): "Return if already processing or no items in queue"
ProcessGuardNoFlag(s) == Len(s.queue) = 0
ProcessGuard(s) == s.processing \/ Len(s.queue) = 0

FreeLoops(s) == {l \in Loops : s.loopPhase[l] = "idle"}

\* process() past the guard: set the flag, splice the batch off the front and
\* start processMessage for each message (attempts++, sendFunction called)
Dispatch(s) ==
    IF FreeLoops(s) = {} THEN s
    ELSE
    LET l == CHOOSE x \in FreeLoops(s) : \A y \in FreeLoops(s) : x <= y
        b == Take(s.queue, concurrency)
    IN  [s EXCEPT !.processing = TRUE,
                  !.queue = Drop(s.queue, concurrency),
                  !.loopPhase[l] = "batch",
                  !.batch[l] = b,
                  !.results[l] = [i \in 1..Len(b) |-> "sending"],
                  !.attempts = [m \in Msg |->
                                  IF m \in Range(b) THEN @[m] + 1 ELSE @[m]]]

process(s) == IF ProcessGuard(s) THEN s ELSE Dispatch(s)

\* add() appends with Array.prototype.push
pushFront(q, m) == <<m>> \o q
push(q, m) == Append(q, m)

\* add(): count, create the promise, push, start processing if idle
add(s) ==
    LET m == s.messagesQueued + 1
        t == [s EXCEPT !.messagesQueued = m,
                       !.handle[m] = "pending",
                       !.attempts[m] = 0,
                       !.queue = push(s.queue, m)]
    IN  IF ~t.processing THEN process(t) ELSE t

\* the results.forEach of process(), from index i on
RECURSIVE forEachResult(_, _, _)
forEachResult(s, l, i) ==
    IF i > Len(s.batch[l]) THEN s
    ELSE
    LET m == s.batch[l][i]
        r == s.results[l][i]
        t == IF r = "fulfilled"
             THEN [s EXCEPT !.handle[m] = resolveHandle(@),
                            !.settleLog = Append(@, <<m, "resolve">>),
                            !.messagesSent = @ + 1]
             ELSE [s EXCEPT !.handle[m] =
                                rejectHandle(@, IF r = "rejectedRetry"
                                                THEN "rejected_retry"
                                                ELSE "rejected_failed"),
                            !.settleLog = Append(@, <<m, "reject">>),
                            !.messagesFailed = @ + 1]
    IN  forEachResult(t, l, i + 1)

SettledOrWaiting(r) == r # "sending"
Settled(r) == r \in {"fulfilled", "rejectedRetry", "rejectedFinal"}

\* Promise.allSettled: once every processMessage promise of the batch has
\* settled, process() resumes, runs the forEach and starts the batch delay
allSettled(s, l) ==
    IF \A i \in DOMAIN s.results[l] : Settled(s.results[l][i])
    THEN [forEachResult(s, l, 1) EXCEPT !.loopPhase[l] = "delay"]
    ELSE s

\* processMessage: sendFunction resolved
sendResolved(s, l, i) ==
    LET m == s.batch[l][i]
    IN  allSettled([s EXCEPT !.results[l][i] = "fulfilled",
                             !.fate[m] = "sent"], l)

\* processMessage's catch: "Retry if under max attempts"
RetryAllowedOnceMore(n) == n <= maxRetries
RetryAllowed(n) == n < maxRetries

\* processMessage: sendFunction threw
sendRejected(s, l, i) ==
    LET m == s.batch[l][i]
        t == [s EXCEPT !.sendFailures[m] = @ + 1]
    IN  IF RetryAllowed(s.attempts[m])
        THEN [t EXCEPT !.results[l][i] = "retryWait"]
        ELSE allSettled([t EXCEPT !.results[l][i] = "rejectedFinal",
                                  !.fate[m] = "failed"], l)

\* processMessage after the retry delay: unshift, reject "will be retried"
retryElapsedUnlessEmpty(s, l, i) ==
    LET m == s.batch[l][i]
    IN  allSettled([s EXCEPT !.queue = IF @ = <<>> THEN @ ELSE <<m>> \o @,
                             !.results[l][i] = "rejectedRetry"], l)
retryElapsedAppends(s, l, i) ==
    LET m == s.batch[l][i]
    IN  allSettled([s EXCEPT !.queue = Append(@, m),
                             !.results[l][i] = "rejectedRetry"], l)
retryElapsed(s, l, i) ==
    LET m == s.batch[l][i]
    IN  allSettled([s EXCEPT !.queue = <<m>> \o @,
                             !.results[l][i] = "rejectedRetry"], l)

\* process() after the batch delay: the finally block
finallyNoContinue(s, l) ==
    [s EXCEPT !.processing = FALSE,
              !.loopPhase[l] = "idle",
              !.batch[l] = <<>>,
              !.results[l] = <<>>]
finally(s, l) ==
    LET t == [s EXCEPT !.processing = FALSE,
                       !.loopPhase[l] = "idle",
                       !.batch[l] = <<>>,
                       !.results[l] = <<>>]
    IN  IF Len(t.queue) > 0 THEN process(t) ELSE t

\* clear()
clearCountsAfter(s) == [s EXCEPT !.queue = <<>>, !.count = 0]
clear(s) == [s EXCEPT !.count = Len(s.queue), !.queue = <<>>]

\* getStats()
getStats(s) ==
    [queued |-> Len(s.queue), sent |-> s.messagesSent,
     failed |-> s.messagesFailed, total |-> s.messagesQueued,
     processing |-> s.processing]

(* ------------------------------ AppError ------------------------------ *)
\* the first character of `${statusCode}`
RECURSIVE LeadingDigit(_)
LeadingDigit(n) == IF n < 10 THEN n ELSE LeadingDigit(n \div 10)

\* new AppError(message, statusCode)
AppError(message, statusCode) ==
    [message |-> message, statusCode |-> statusCode,
     status |-> IF LeadingDigit(statusCode) = 4 THEN "fail" ELSE "error",
     isOperational |-> TRUE]

(* -------------------------- WhatsAppService --------------------------- *)
SState ==
    [client |-> client, isInitialized |-> isInitialized,
     initializationPromise |-> initializationPromise,
     mongoReady |-> mongoReady, clientLifetime |-> clientLifetime,
     initPc |-> initPc, initResult |-> initResult, initValue |-> initValue,
     onceOn |-> onceOn, clientState |-> clientState, readyTask |-> readyTask,
     timer |-> timer, timerMsg |-> timerMsg, calls |-> calls,
     logoutPc |-> logoutPc, destroyPc |-> destroyPc, returned |-> returned,
     sendReq |-> sendReq, sendMsg |-> sendMsg]

SetSState(v) ==
    /\ client' = v.client
    /\ isInitialized' = v.isInitialized
    /\ initializationPromise' = v.initializationPromise
    /\ mongoReady' = v.mongoReady
    /\ clientLifetime' = v.clientLifetime
    /\ initPc' = v.initPc
    /\ initResult' = v.initResult
    /\ initValue' = v.initValue
    /\ onceOn' = v.onceOn
    /\ clientState' = v.clientState
    /\ readyTask' = v.readyTask
    /\ timer' = v.timer
    /\ timerMsg' = v.timerMsg
    /\ calls' = v.calls
    /\ logoutPc' = v.logoutPc
    /\ destroyPc' = v.destroyPc
    /\ returned' = v.returned
    /\ sendReq' = v.sendReq
    /\ sendMsg' = v.sendMsg

\* "Reset initialization state"
reset(v) == [v EXCEPT !.isInitialized = FALSE, !.initializationPromise = 0]

\* _initialize(): new Client, _setupEventHandlers, client.initialize() called
createClient(v, a) ==
    [v EXCEPT !.client = a,
              !.clientState[a] = "starting",
              !.initPc[a] = "bringup"]

\* _initialize() up to its first await
initialize(v, a) ==
    IF v.mongoReady THEN createClient(v, a)
    ELSE [v EXCEPT !.initPc[a] = "mongo"]

\* _initialize(): the catch block
initializeCatchKeepsPromise(v, a, error) ==
    [v EXCEPT !.isInitialized = FALSE, !.initPc[a] = "done",
              !.initResult[a] = error, !.onceOn[a] = 0]
initializeCatch(v, a, error) ==
    [reset(v) EXCEPT !.initPc[a] = "done", !.initResult[a] = error,
                     !.onceOn[a] = 0]

\* _initialize() after `await this.client.initialize()`: arm the lifetime
\* timer, register the once-handlers and the timeout on this.client
initializeWait(v, a) ==
    [v EXCEPT !.timer[a] = IF v.clientLifetime > 0 THEN "armed" ELSE "none",
              !.onceOn[a] = v.client,
              !.initPc[a] = "waitReady"]

NextAttempt(v) == 1 + Cardinality({a \in Attempt : v.initPc[a] # "none"})

\* connect(): "If already initializing, return the existing promise"
AlreadyInitialized(v) == v.isInitialized
AlreadyInitializing(v) == v.initializationPromise # 0

connect(v) ==
    IF AlreadyInitializing(v)
    THEN [v EXCEPT !.calls = Append(@, v.initializationPromise)]
    ELSE LET a == NextAttempt(v)
         IN  [initialize(v, a) EXCEPT !.initializationPromise = a,
                                      !.calls = Append(@, a)]

\* the attempts whose once('ready') / once('auth_failure') sit on client c
Waiting(v, c) ==
    {a \in Attempt : v.initPc[a] = "waitReady" /\ v.onceOn[a] = c}

\* client c emits 'ready': its on-handler starts, every waiting _initialize()
\* resumes, sets isInitialized and returns this.client
onReady(v, c) ==
    LET W == Waiting(v, c)
    IN  [v EXCEPT !.clientState[c] = "authed",
                  !.readyTask[c] = "pending",
                  !.initPc = [a \in Attempt |-> IF a \in W THEN "done" ELSE @[a]],
                  !.initResult = [a \in Attempt |-> IF a \in W THEN "ok" ELSE @[a]],
                  !.initValue = [a \in Attempt |->
                                    IF a \in W THEN v.client ELSE @[a]],
                  !.onceOn = [a \in Attempt |-> IF a \in W THEN 0 ELSE @[a]],
                  !.isInitialized = IF W # {} THEN TRUE ELSE @]

\* client c emits 'auth_failure': the on-handler resets, every waiting
\* _initialize() rejects into its catch block
onAuthFailure(v, c) ==
    LET W == Waiting(v, c)
    IN  [reset(v) EXCEPT
            !.clientState[c] = "authFailed",
            !.initPc = [a \in Attempt |-> IF a \in W THEN "done" ELSE @[a]],
            !.onceOn = [a \in Attempt |-> IF a \in W THEN 0 ELSE @[a]],
            !.initResult = [a \in Attempt |->
                               IF a \in W THEN "authFailed" ELSE @[a]]]

\* client c emits 'disconnected'
onDisconnectedKeepsPromise(v, c) ==
    [v EXCEPT !.isInitialized = FALSE, !.clientState[c] = "disconnected"]
onDisconnected(v, c) == [reset(v) EXCEPT !.clientState[c] = "disconnected"]

\* sendMessage(): "WhatsApp client is not initialized" (400)
NotInitialized(v) == ~v.isInitialized \/ v.client = 0

\* _setupClientLifetime: the timer callback when there is nothing to destroy
lifetimeIdle(v, a) == [reset(v) EXCEPT !.timer[a] = "fired"]

\* _setupClientLifetime: the timer callback awaiting its admin notice m
lifetimeNotify(v, a, m) ==
    [v EXCEPT !.timer[a] = "notifying", !.timerMsg[a] = m]

\* the timer callbacks whose awaited admin notice has just been settled:
\* resolved: this.client.destroy() is called; rejected: the catch block
onSettle(v, h) ==
    LET W == {a \in Attempt : v.timer[a] = "notifying"
                              /\ h[v.timerMsg[a]] # "pending"}
        D == {a \in W : h[v.timerMsg[a]] = "resolved"}
    IN  [v EXCEPT !.timer = [a \in Attempt |->
                                IF a \in D THEN "destroying"
                                ELSE IF a \in W THEN "fired" ELSE @[a]],
                  !.timerMsg = [a \in Attempt |-> IF a \in W THEN 0 ELSE @[a]],
                  !.clientState = [c \in Attempt |->
                                      IF D # {} /\ c = v.client
                                      THEN "closed" ELSE @[c]]]

\* the timer callback after `await this.client.destroy()`
lifetimeDestroyed(v, a) == [reset(v) EXCEPT !.timer[a] = "fired"]

\* logout()
logoutCallAnyClient(v) ==
    IF v.client = 0 THEN [v EXCEPT !.returned = <<"logout", "false">>]
    ELSE [v EXCEPT !.logoutPc = v.client]
logoutCall(v) ==
    IF NotInitialized(v) THEN [v EXCEPT !.returned = <<"logout", "false">>]
    ELSE [v EXCEPT !.logoutPc = v.client]

logoutDoneKeepsState(v) ==
    [v EXCEPT !.clientState[v.logoutPc] =
                          IF @ = "authed" THEN "loggedOut" ELSE @,
              !.returned = <<"logout", "true">>,
              !.logoutPc = 0]
logoutDone(v) ==
    [reset(v) EXCEPT !.clientState[v.logoutPc] =
                          IF @ = "authed" THEN "loggedOut" ELSE @,
                     !.returned = <<"logout", "true">>,
                     !.logoutPc = 0]

\* destroy()
destroyCall(v) ==
    IF v.isInitialized /\ v.client # 0
    THEN [v EXCEPT !.destroyPc = v.client, !.clientState[v.client] = "closed"]
    ELSE [v EXCEPT !.returned = <<"destroy", "false">>]

destroyDoneKeepsState(v) ==
    [v EXCEPT !.returned = <<"destroy", "true">>, !.destroyPc = 0]
destroyDone(v) ==
    [reset(v) EXCEPT !.returned = <<"destroy", "true">>, !.destroyPc = 0]

(* --------------------------- routes/whatsapp -------------------------- *)
\* what a field of req.body can be: absent, the empty string, a text
Field == {"undefined", "", "text"}
\* !x is false
Truthy(x) == x \notin {"undefined", ""}

\* POST /send: "Validate input"
ValidAlways(message, title) == TRUE
Valid(message, title) == Truthy(message) /\ Truthy(title)

\* POST /send up to `await whatsappService.connect()`
postSend(v, message, title) ==
    IF ~Valid(message, title)
    THEN [v EXCEPT !.returned = <<"send", "validation">>]
    ELSE LET w == connect(v)
         IN  [w EXCEPT !.sendReq = w.calls[Len(w.calls)]]

(* ------------------------------ actions ------------------------------- *)
\* new MessageQueue()
QNew ==
    /\ queue = <<>>
    /\ processing = FALSE
    /\ messagesSent = 0
    /\ messagesQueued = 0
    /\ messagesFailed = 0
    /\ attempts = [m \in Msg |-> 0]
    /\ handle = [m \in Msg |-> "none"]
    /\ settleLog = <<>>
    /\ fate = [m \in Msg |-> "none"]
    /\ sendFailures = [m \in Msg |-> 0]
    /\ loopPhase = [l \in Loops |-> "idle"]
    /\ batch = [l \in Loops |-> <<>>]
    /\ results = [l \in Loops |-> <<>>]
    /\ count = 0

SInit ==
    /\ client = 0
    /\ isInitialized = FALSE
    /\ initializationPromise = 0
    /\ mongoReady \in BOOLEAN
    /\ clientLifetime \in {0, 1}
    /\ initPc = [a \in Attempt |-> "none"]
    /\ initResult = [a \in Attempt |-> "pending"]
    /\ initValue = [a \in Attempt |-> 0]
    /\ onceOn = [a \in Attempt |-> 0]
    /\ clientState = [c \in Attempt |-> "none"]
    /\ readyTask = [c \in Attempt |-> "none"]
    /\ timer = [a \in Attempt |-> "none"]
    /\ timerMsg = [a \in Attempt |-> 0]
    /\ calls = <<>>
    /\ logoutPc = 0
    /\ destroyPc = 0
    /\ returned = <<"none", "none">>
    /\ sendReq = 0
    /\ sendMsg = 0

\* config.queue as the environment may set it (MAX_RETRIES=0 included)
QInit ==
    /\ maxRetries \in 0..MaxRetriesCfg
    /\ concurrency \in 1..MaxConcurrencyCfg
    /\ QNew
    /\ SInit
    /\ mongoReady = FALSE
    /\ clientLifetime = 0

\* a step of the queue, and what the service's callbacks awaiting a result
\* handle do in the same turn
QStep(s) == SetQState(s) /\ SetSState(onSettle(SState, s.handle))

\* a caller submits a message
AddUpTo(n) ==
    /\ messagesQueued < n
    /\ QStep(add(QState))

Add == AddUpTo(MaxMsgs)

\* the Send Adapter returns for a message in flight
SendSucceeds ==
    \E l \in Loops : \E i \in DOMAIN results[l] :
        /\ results[l][i] = "sending"
        /\ QStep(sendResolved(QState, l, i))

SendFails ==
    \E l \in Loops : \E i \in DOMAIN results[l] :
        /\ results[l][i] = "sending"
        /\ QStep(sendRejected(QState, l, i))

\* the retryDelay timer of a failed message fires
RetryTimer ==
    \E l \in Loops : \E i \in DOMAIN results[l] :
        /\ results[l][i] = "retryWait"
        /\ QStep(retryElapsed(QState, l, i))

\* the messageDelay timer of a settled batch fires
DelayTimer ==
    \E l \in Loops :
        /\ loopPhase[l] = "delay"
        /\ QStep(finally(QState, l))

Clear == QStep(clear(QState))

\* ---- the service ----
SStep(v) == SetSState(v) /\ UNCHANGED qvars

\* a step of the service that submits message messagesQueued + 1
SStepAdd(v) ==
    /\ messagesQueued < SvcMsgs
    /\ SetSState(v)
    /\ SetQState(add(QState))

Connect ==
    /\ Len(calls) < MaxCalls
    /\ AlreadyInitializing(SState) \/ NextAttempt(SState) <= MaxAttempts
    /\ SStep(connect(SState))

MongoConnected ==
    \E a \in Attempt :
        /\ initPc[a] = "mongo"
        /\ SStep(createClient([SState EXCEPT !.mongoReady = TRUE], a))

MongoFails ==
    \E a \in Attempt :
        /\ initPc[a] = "mongo"
        /\ SStep(initializeCatch(SState, a, "internal"))

InitializeReturns ==
    \E a \in Attempt :
        /\ initPc[a] = "bringup"
        /\ SStep(initializeWait(SState, a))

InitializeThrows ==
    \E a \in Attempt :
        /\ initPc[a] = "bringup"
        /\ SStep(initializeCatch(SState, a, "internal"))

InitTimeout ==
    \E a \in Attempt :
        /\ initPc[a] = "waitReady"
        /\ SStep(initializeCatch(SState, a, "timeout"))

Ready ==
    \E c \in Attempt :
        /\ clientState[c] = "starting"
        /\ SStep(onReady(SState, c))

AuthFailure ==
    \E c \in Attempt :
        /\ clientState[c] = "starting"
        /\ SStep(onAuthFailure(SState, c))

Disconnected ==
    \E c \in Attempt :
        /\ clientState[c] \in {"starting", "authed", "loggedOut"}
        /\ SStep(onDisconnected(SState, c))

\* the ready handler after getWWebVersion: the admin notice is submitted
ReadyNotify ==
    \E c \in Attempt :
        /\ readyTask[c] = "pending"
        /\ ~NotInitialized(SState)
        /\ SStepAdd([SState EXCEPT !.readyTask[c] = "none"])

\* the ready handler ends in its catch (getWWebVersion or sendMessage threw)
ReadyNotifyFails ==
    \E c \in Attempt :
        /\ readyTask[c] = "pending"
        /\ SStep([SState EXCEPT !.readyTask[c] = "none"])

LifetimeTimer ==
    \E a \in Attempt :
        /\ timer[a] = "armed"
        /\ IF ~NotInitialized(SState)
           THEN SStepAdd(lifetimeNotify(SState, a, messagesQueued + 1))
           ELSE SStep(lifetimeIdle(SState, a))

LifetimeDestroyReturns ==
    \E a \in Attempt :
        /\ timer[a] = "destroying"
        /\ SStep(lifetimeDestroyed(SState, a))

LifetimeDestroyThrows ==
    \E a \in Attempt :
        /\ timer[a] = "destroying"
        /\ SStep([SState EXCEPT !.timer[a] = "fired"])

Logout ==
    /\ logoutPc = 0
    /\ SStep(logoutCall(SState))

LogoutReturns ==
    /\ logoutPc # 0
    /\ SStep(logoutDone(SState))

LogoutThrows ==
    /\ logoutPc # 0
    /\ SStep([SState EXCEPT !.returned = <<"logout", "error">>,
                         !.logoutPc = 0])

Destroy ==
    /\ destroyPc = 0
    /\ SStep(destroyCall(SState))

DestroyReturns ==
    /\ destroyPc # 0
    /\ SStep(destroyDone(SState))

DestroyThrows ==
    /\ destroyPc # 0
    /\ SStep([SState EXCEPT !.returned = <<"destroy", "error">>,
                         !.destroyPc = 0])

\* the errors behind the tags kept in `returned`
Thrown(tag) ==
    CASE tag = "notInitialized" ->
             AppError("WhatsApp client is not initialized", 400)
      [] tag = "validation" ->
             AppError("Title and message are required fields", 400)

SendMessageUnguarded ==
    SStepAdd([SState EXCEPT !.returned = <<"sendMessage", "queued">>])
SendMessage ==
    IF NotInitialized(SState)
    THEN SStep([SState EXCEPT !.returned = <<"sendMessage", "notInitialized">>])
    ELSE SStepAdd([SState EXCEPT !.returned = <<"sendMessage", "queued">>])

\* ---- the POST /send route ----
PostSend ==
    \E message, title \in Field :
        /\ sendReq = 0 /\ sendMsg = 0
        /\ Valid(message, title) =>
              /\ Len(calls) < MaxCalls
              /\ AlreadyInitializing(SState) \/ NextAttempt(SState) <= MaxAttempts
        /\ SStep(postSend(SState, message, title))

\* connect() has settled: the handler rethrows its error, or calls
\* sendMessage() and awaits the message's result
PostSendResumes ==
    /\ sendReq # 0
    /\ initResult[sendReq] # "pending"
    /\ IF initResult[sendReq] # "ok"
       THEN SStep([SState EXCEPT !.sendReq = 0,
                                 !.returned = <<"send", "initFailed">>])
       ELSE IF NotInitialized(SState)
       THEN SStep([SState EXCEPT !.sendReq = 0,
                                 !.returned = <<"send", "notInitialized">>])
       ELSE SStepAdd([SState EXCEPT !.sendReq = 0,
                                    !.sendMsg = messagesQueued + 1])

\* the message's result handle has settled: the response is sent
PostSendResponds ==
    /\ sendMsg # 0
    /\ handle[sendMsg] \notin {"none", "pending"}
    /\ SStep([SState EXCEPT !.sendMsg = 0,
                            !.returned = <<"send", IF handle[sendMsg] = "resolved"
                                                   THEN "200" ELSE "sendFailed">>])

(* --------------------------- specifications --------------------------- *)
\* the queue on its own, driven through its public methods
QNext == Add \/ SendSucceeds \/ SendFails \/ RetryTimer \/ DelayTimer \/ Clear

QSpec == QInit /\ [][QNext]_vars

\* the service together with the queue it feeds
Init ==
    /\ maxRetries = DefaultMaxRetries
    /\ concurrency = DefaultConcurrency
    /\ QNew
    /\ SInit

Next ==
    \/ Connect \/ MongoConnected \/ MongoFails
    \/ InitializeReturns \/ InitializeThrows \/ InitTimeout
    \/ Ready \/ AuthFailure \/ Disconnected
    \/ ReadyNotify \/ ReadyNotifyFails
    \/ LifetimeTimer \/ LifetimeDestroyReturns \/ LifetimeDestroyThrows
    \/ Logout \/ LogoutReturns \/ LogoutThrows
    \/ Destroy \/ DestroyReturns \/ DestroyThrows
    \/ SendMessage
    \/ SendSucceeds \/ SendFails \/ RetryTimer \/ DelayTimer \/ Clear

Spec == Init /\ [][Next]_vars

\* connect() and the initialization it starts, against the external
\* session's signals and the timers
InitNext ==
    \/ Connect \/ MongoConnected \/ MongoFails
    \/ InitializeReturns \/ InitializeThrows \/ InitTimeout
    \/ Ready \/ AuthFailure \/ Disconnected
    \/ ReadyNotify \/ ReadyNotifyFails
    \/ LifetimeTimer \/ LifetimeDestroyReturns \/ LifetimeDestroyThrows
    \/ SendSucceeds \/ SendFails \/ RetryTimer \/ DelayTimer

InitSpec == Init /\ [][InitNext]_vars

\* the public lifecycle operations against the external session's signals,
\* with the database connected and no client lifetime configured
LifeInit ==
    /\ Init
    /\ mongoReady = TRUE
    /\ clientLifetime = 0

LifeNext ==
    \/ Connect
    \/ InitializeReturns \/ InitializeThrows \/ InitTimeout
    \/ Ready \/ AuthFailure \/ Disconnected
    \/ ReadyNotify \/ ReadyNotifyFails
    \/ Logout \/ LogoutReturns \/ LogoutThrows
    \/ Destroy \/ DestroyReturns \/ DestroyThrows
    \/ SendMessage
    \/ SendSucceeds \/ SendFails \/ RetryTimer \/ DelayTimer

LifeSpec == LifeInit /\ [][LifeNext]_vars

\* POST /send requests against the session's signals
RouteNext ==
    \/ PostSend \/ PostSendResumes \/ PostSendResponds
    \/ InitializeReturns \/ InitializeThrows \/ InitTimeout
    \/ Ready \/ AuthFailure \/ Disconnected
    \/ ReadyNotify \/ ReadyNotifyFails
    \/ SendSucceeds \/ SendFails \/ RetryTimer \/ DelayTimer

RouteSpec == LifeInit /\ [][RouteNext]_vars

\* every Send Adapter call returns and every timer fires
QFair ==
    /\ WF_vars(SendSucceeds \/ SendFails)
    /\ WF_vars(RetryTimer)
    /\ WF_vars(DelayTimer)

QLiveNext ==
    AddUpTo(LiveMsgs) \/ SendSucceeds \/ SendFails \/ RetryTimer \/ DelayTimer
        \/ Clear

QLive == QInit /\ [][QLiveNext]_vars /\ QFair

(* ------------------------- derived vocabulary ------------------------- *)
Enqueued(m) == handle[m] # "none"
HandleSettled(m) == handle[m] \in {"resolved", "rejected_retry", "rejected_failed"}
Terminal(m) == fate[m] \in {"sent", "failed"}
ActiveLoops == {l \in Loops : loopPhase[l] # "idle"}
\* m is in a batch whose Promise.allSettled has not resumed process() yet
Awaiting(m) == \E l \in Loops : loopPhase[l] = "batch" /\ m \in Range(batch[l])
InSomeBatch(m) == \E l \in Loops : m \in Range(batch[l])
\* m was removed by clear(): submitted, no longer anywhere, never finished
Discarded(m) ==
    /\ Enqueued(m)
    /\ ~Terminal(m)
    /\ m \notin Range(queue)
    /\ ~InSomeBatch(m)
Idle == ~processing /\ queue = <<>>
NoFailure == \A m \in Msg : sendFailures[m] = 0
Increasing(q) == \A i, j \in DOMAIN q : i < j => q[i] < q[j]
LogIds == [i \in DOMAIN settleLog |-> settleLog[i][1]]
IsResolve(e) == e[2] = "resolve"
ResolveOrder ==
    LET r == SelectSeq(settleLog, IsResolve) IN [i \in DOMAIN r |-> r[i][1]]

\* the session state machine's phase, read off the service's fields
InFlight(a) == initPc[a] \in {"mongo", "bringup", "waitReady"}
Started(a) == initPc[a] # "none"
\* no session has been ended and no lifetime timer has fired so far
Quiet ==
    /\ \A c \in Attempt : clientState[c] \in {"none", "starting", "authed"}
    /\ \A a \in Attempt : timer[a] \in {"none", "armed"}

(* ------------------------------- claims ------------------------------- *)
\* C1: a failed send with retries left leaves the caller's result handle
\* pending: a handle is settled only once its item is finally sent or has
\* exhausted its retries.
C1_PendingUntilTerminal ==
    \A m \in Msg : HandleSettled(m) => Terminal(m)

\* C2: an item that fails k < maxRetries times and then succeeds ends with its
\* handle resolved successfully and attempts = k + 1.
C2_RetriedThenSentResolves ==
    \A m \in Msg :
        (fate[m] = "sent" /\ ~Awaiting(m)) =>
            /\ handle[m] = "resolved"
            /\ attempts[m] = sendFailures[m] + 1

\* C3: an item that fails maxRetries times is rejected with the permanent
\* "failed after N attempts" error, with attempts = maxRetries, and no handle
\* is rejected before the retries are exhausted.
C3_RejectedOnlyWhenExhausted ==
    \A m \in Msg :
        /\ (fate[m] = "failed" /\ ~Awaiting(m)) =>
               (handle[m] = "rejected_failed" /\ attempts[m] = maxRetries)
        /\ handle[m] \in {"rejected_retry", "rejected_failed"} =>
               (fate[m] = "failed" /\ attempts[m] = maxRetries
                /\ handle[m] = "rejected_failed")

\* C4: connect() calls made while the first initialization is undisturbed
\* (no session ended, no lifetime timer fired, the attempt not failed) start
\* exactly one initialization and create one session object; every caller
\* holds that one promise, so all get the same handle or the same error.
C4_OneInitialization ==
    (/\ calls # <<>>
     /\ Quiet
     /\ initResult[1] \in {"pending", "ok"})
    =>
    (/\ \A i \in DOMAIN calls : calls[i] = 1
     /\ \A a \in Attempt \ {1} : ~Started(a)
     /\ \A c \in Attempt \ {1} : clientState[c] = "none"
     /\ client \in {0, 1}
     /\ initResult[1] = "ok" => (initValue[1] = 1 /\ isInitialized))

C4_Witness ==
    /\ Quiet
    /\ Len(calls) >= 2
    /\ \A i \in DOMAIN calls : calls[i] = 1
    /\ initResult[1] = "ok"

\* C5: at most one initialization attempt is in flight in every reachable
\* state, whatever lifecycle events interleave with the connect() calls.
C5_SingleInitialization ==
    Cardinality({a \in Attempt : InFlight(a)}) <= 1

\* C6: while no send has failed, items are dispatched from the front in
\* batches of at most `concurrency` and their handles are resolved in
\* enqueue order.
C6_FifoWithoutFailures ==
    NoFailure =>
        /\ Increasing(queue)
        /\ Increasing(LogIds)
        /\ \A i \in DOMAIN settleLog : IsResolve(settleLog[i])
        /\ \A l \in Loops :
              /\ Len(batch[l]) <= concurrency
              /\ Increasing(batch[l])
              /\ \A m \in Range(batch[l]) :
                    /\ \A n \in Range(queue) : m < n
                    /\ loopPhase[l] = "batch" =>
                          \A i \in DOMAIN LogIds : LogIds[i] < m
                    /\ loopPhase[l] = "delay" => handle[m] = "resolved"

C6_Witness ==
    /\ NoFailure
    /\ concurrency = 2
    /\ ResolveOrder = <<1, 2, 3>>

\* C7: with concurrency 1 and maxRetries > 1, three items of which the first
\* fails once and then succeeds complete in the order 1, 2, 3, all handles
\* resolve, and the statistics end at sent = 3, failed = 0.
C7_Scenario ==
    (/\ concurrency = 1 /\ maxRetries > 1
     /\ messagesQueued = 3
     /\ \A m \in 1..3 : fate[m] = "sent"
     /\ sendFailures[1] = 1 /\ sendFailures[2] = 0 /\ sendFailures[3] = 0
     /\ Idle)
    =>
    (/\ ResolveOrder = <<1, 2, 3>>
     /\ \A m \in 1..3 : handle[m] = "resolved"
     /\ messagesSent = 3
     /\ messagesFailed = 0)

\* C8: at most one invocation of process() is past its guard at any time, the
\* flag says so, and process() called while the flag is set or the backlog is
\* empty changes nothing.
C8_SingleLoop ==
    /\ Cardinality(ActiveLoops) <= 1
    /\ processing <=> ActiveLoops # {}
    /\ (processing \/ Len(queue) = 0) => process(QState) = QState

C8_Witness ==
    /\ Len(queue) > 0
    /\ \E l \in Loops : loopPhase[l] = "delay"

\* C9: when every send returns and every timer fires, each submitted item
\* that clear() did not remove reaches a terminal outcome, and the queue
\* ends idle for good.
AllFinished == \A m \in Msg : Enqueued(m) => (Terminal(m) \/ Discarded(m))

C9_Liveness == <>[](Idle /\ AllFinished)

C9_Witness ==
    /\ Idle
    /\ maxRetries = 2
    /\ fate[1] = "failed" /\ Discarded(2)

\* C10: clear() empties the backlog in one step, returns the number of items
\* that were in it, and changes neither the dispatched batch nor the lifetime
\* counters.
C10_ClearFrame ==
    [][Clear =>
         /\ queue' = <<>>
         /\ count' = Len(queue)
         /\ UNCHANGED <<batch, results, loopPhase, processing, attempts,
                        handle, fate, settleLog>>
         /\ UNCHANGED <<messagesSent, messagesFailed, messagesQueued>>]_vars

C10_Witness ==
    /\ count = 2 /\ queue = <<>>
    /\ messagesSent = 0 /\ messagesFailed = 0
    /\ \E l \in Loops : loopPhase[l] = "batch" /\ batch[l] = <<1>>
                          /\ results[l] = <<"sending">>

\* C11: right after a clear() made while a batch is active, getStats().queued
\* is the number of items dispatched but not yet settled.
DispatchedUnsettled == {m \in Msg : Awaiting(m)}

C11_ClearDuringBatch ==
    [][(Clear /\ \E l \in Loops : loopPhase[l] = "batch") =>
         (getStats(QState).queued = Cardinality(DispatchedUnsettled))']_vars

\* C12: in every Ready state connect() returns the current session handle,
\* starts no initialization and creates no session object.
PhaseReady == ~NotInitialized(SState)

C12_ReadyReturnsHandle ==
    PhaseReady =>
        /\ AlreadyInitializing(SState)
        /\ initResult[initializationPromise] = "ok"
        /\ initValue[initializationPromise] = client
        /\ connect(SState).initPc = initPc
        /\ connect(SState).client = client

\* what the i-th connect() call's promise has settled to
Outcome(i) == initResult[calls[i]]
\* the step in which attempt a's two-minute timeout rejects its wait
TimesOut(a) == initPc[a] = "waitReady" /\ initResult'[a] = "timeout"

\* C13: when the initialization timeout fires, every caller holding the
\* attempt's promise gets the timeout error, the service is neither Ready nor
\* initializing, and the next connect() starts a fresh attempt.
C13_Timeout ==
    [][\A a \in Attempt : TimesOut(a) =>
          /\ initPc'[a] = "done"
          /\ \A i \in DOMAIN calls : calls[i] = a => Outcome(i)' = "timeout"
          /\ ~PhaseReady'
          /\ ~isInitialized' /\ initializationPromise' = 0
          /\ (NextAttempt(SState) <= MaxAttempts =>
                 /\ connect(SState).initializationPromise = NextAttempt(SState)
                 /\ connect(SState).initPc[NextAttempt(SState)] # "none")']_vars

C13_Witness ==
    /\ calls = <<1, 1>>
    /\ initResult[1] = "timeout"
    /\ Outcome(1) = "timeout" /\ Outcome(2) = "timeout"
    /\ ~isInitialized /\ initializationPromise = 0

\* C14: an attempt whose session signals an authentication failure while it
\* is initializing fails with that error for every caller holding its
\* promise, none of them sees success, and the service is left idle so that
\* the next connect() starts a new attempt.
RejectedByAuth(c) == clientState[c] = "authFailed"

C14_AuthFailureFails ==
    \A c \in Attempt : RejectedByAuth(c) =>
        /\ initResult[c] = "authFailed"
        /\ \A i \in DOMAIN calls : calls[i] = c => Outcome(i) = "authFailed"

\* C15: a 'disconnected' signal, in whatever phase it arrives, leaves the
\* service not Ready (sendMessage is refused) and with no promise to hand
\* out, so that the next connect() starts a new attempt with a new client.
C15_Disconnected ==
    [][Disconnected =>
         (/\ ~PhaseReady
          /\ NotInitialized(SState)
          /\ ~AlreadyInitializing(SState)
          /\ LET n == NextAttempt(SState)
             IN  n <= MaxAttempts =>
                    /\ initPc[n] = "none"
                    /\ connect(SState).initializationPromise = n
                    /\ connect(SState).calls = Append(calls, n)
                    /\ connect(SState).client = n)']_vars

C15_Witness ==
    /\ initResult[1] = "ok"
    /\ clientState[1] = "disconnected"
    /\ returned = <<"sendMessage", "notInitialized">>
    /\ calls = <<1, 2>>
    /\ client = 2

\* C16: every state a 'disconnected' or 'auth_failure' event leads to holds
\* no session object and no initialization in flight.
C16_EventsClear ==
    [][(Disconnected \/ AuthFailure) =>
         (/\ client = 0
          /\ initializationPromise = 0
          /\ \A a \in Attempt : ~InFlight(a))']_vars

\* C17: logout() called in a Ready state calls the session's logout(); when
\* that call succeeds logout() returns true and leaves the service not Ready
\* with no initialization promise, so the next connect() starts a new attempt
\* (which can become Ready again: the witness).
C17_LogoutWhenReady ==
    [][/\ (Logout /\ PhaseReady) =>
            /\ logoutPc' = client
            /\ UNCHANGED <<client, isInitialized, initializationPromise, returned>>
       /\ LogoutReturns =>
            /\ client' = client
            /\ (/\ returned = <<"logout", "true">>
                /\ logoutPc = 0
                /\ ~PhaseReady
                /\ ~isInitialized /\ initializationPromise = 0
                /\ LET n == NextAttempt(SState)
                   IN  n <= MaxAttempts =>
                          /\ initPc[n] = "none"
                          /\ connect(SState).initializationPromise = n
                          /\ connect(SState).client = n)']_vars

C17_Witness ==
    /\ returned = <<"logout", "true">>
    /\ clientState[1] = "loggedOut"
    /\ initResult[2] = "ok"
    /\ PhaseReady /\ client = 2

\* C18: in every state that is not Ready, logout() returns false, throws
\* nothing, does not call the session and changes no field of the service.
C18_LogoutWhenNotReady ==
    ~PhaseReady =>
        /\ logoutCall(SState) = [SState EXCEPT !.returned = <<"logout", "false">>]
        /\ logoutCall(SState).logoutPc = logoutPc

C18_Witness ==
    /\ returned = <<"logout", "false">>
    /\ client = 1 /\ initPc[1] = "waitReady"
    /\ ~isInitialized /\ initializationPromise = 1
    /\ logoutPc = 0

\* C19: whenever the service holds a session object, whatever the phase,
\* destroy() tears that session down (and goes on to return true); it
\* returns false only when there is no session object.
C19_DestroyAnyPhase ==
    client # 0 =>
        /\ destroyCall(SState).destroyPc = client
        /\ destroyCall(SState).clientState[client] = "closed"
        /\ destroyCall(SState).returned = returned

\* a destroy() call made now returns false and changes nothing
DestroyIsNoOp ==
    destroyCall(SState) = [SState EXCEPT !.returned = <<"destroy", "false">>]
\* the step in which a destroy() call returns a value
DestroyCompletes == DestroyReturns \/ (Destroy /\ destroyPc' = 0)

LifetimeEnds(a) ==
    /\ timer[a] \in {"notifying", "destroying"}
    /\ timer'[a] = "fired"
    /\ ~LifetimeDestroyThrows

\* C21: a lifetime timer that fires in a Ready state notifies the admin
\* first, then destroys the session, and ends with the service neither Ready
\* nor initializing, whatever became of the notification.
C21_LifetimeExpiry ==
    [][\A a \in Attempt :
          /\ timer'[a] = "destroying" => timer[a] \in {"notifying", "destroying"}
          /\ LifetimeEnds(a) =>
                (~PhaseReady /\ ~isInitialized /\ initializationPromise = 0)']_vars

\* C22: sendMessage() in a state that is not Ready throws at once the
\* not-initialized error, a 400 of class fail, and enqueues nothing: the
\* queue, its counters and its sends are untouched.
C22_SendWhenNotReady ==
    [][(SendMessage /\ ~PhaseReady) =>
          /\ returned' = <<"sendMessage", "notInitialized">>
          /\ Thrown(returned'[2]).statusCode = 400
          /\ Thrown(returned'[2]).status = "fail"
          /\ UNCHANGED qvars]_vars

C22_Witness ==
    /\ returned = <<"sendMessage", "notInitialized">>
    /\ client = 1 /\ initPc[1] = "waitReady" /\ ~isInitialized
    /\ messagesQueued = 0 /\ queue = <<>> /\ ~processing

\* a POST /send step whose body lacks the message or the title
InvalidPost(message, title) ==
    /\ ~Truthy(message) \/ ~Truthy(title)
    /\ sendReq = 0 /\ sendMsg = 0
    /\ SStep(postSend(SState, message, title))

\* C23: a POST /send without title or message is answered 400 "Title and
\* message are required fields" before anything else: connect() is not
\* called, no initialization starts, nothing is enqueued and the queue's
\* statistics do not change.
C23_ValidationFirst ==
    [][\A message, title \in Field : InvalidPost(message, title) =>
          /\ returned' = <<"send", "validation">>
          /\ Thrown(returned'[2]).statusCode = 400
          /\ Thrown(returned'[2]).status = "fail"
          /\ Thrown(returned'[2]).message = "Title and message are required fields"
          /\ UNCHANGED <<calls, initPc, client, clientState, isInitialized,
                         initializationPromise, sendReq, sendMsg>>
          /\ getStats(QState)' = getStats(QState)
          /\ UNCHANGED qvars]_vars

C23_Witness ==
    /\ returned = <<"send", "validation">>
    /\ calls = <<>> /\ client = 0 /\ \A a \in Attempt : ~Started(a)
    /\ messagesQueued = 0 /\ queue = <<>>

\* how often msg.resolve / msg.reject has been invoked for m so far
Settles(m) == Cardinality({i \in DOMAIN settleLog : settleLog[i][1] = m})

\* C24: over an item's whole life the queue invokes resolve or reject on its
\* handle at most once, and only at the item's terminal outcome.
C24_SettledOnce ==
    \A m \in Msg :
        /\ Settles(m) <= 1
        /\ Settles(m) = 1 => Terminal(m)

\* the items with the given final outcome
WithFate(f) == {m \in Msg : fate[m] = f}
\* no batch is waiting for its sends: every outcome has been counted
Counted == \A l \in Loops : loopPhase[l] # "batch"

\* C25: messagesFailed counts the items that failed for good and
\* messagesSent the items sent (exactly so once the batch's results have been
\* counted); an attempt that is retried counts in neither, so sent plus
\* failed never exceeds messagesQueued.
C25_Counters ==
    /\ messagesFailed <= Cardinality(WithFate("failed"))
    /\ messagesSent <= Cardinality(WithFate("sent"))
    /\ Counted => /\ messagesFailed = Cardinality(WithFate("failed"))
                  /\ messagesSent = Cardinality(WithFate("sent"))
    /\ messagesSent + messagesFailed <= messagesQueued

\* the items handed to processMessage whose promise has not settled yet
Unsettled ==
    {m \in Msg : \E l \in Loops : \E i \in DOMAIN batch[l] :
        batch[l][i] = m /\ ~Settled(results[l][i])}
\* the step in which loop l splices its batch off the backlog
Dispatches(l) == loopPhase[l] # "batch" /\ loopPhase'[l] = "batch"

\* C26: a batch is the first min(concurrency, backlog length) items of the
\* backlog in backlog order, so at most `concurrency` items are dispatched
\* and unsettled at any time.
C26_BatchSize ==
    [][/\ Cardinality(Unsettled') <= concurrency'
       /\ \A l \in Loops : Len(batch'[l]) <= concurrency'
       /\ \A l \in Loops : Dispatches(l) =>
             /\ batch'[l] \o queue' \in {queue, Append(queue, messagesQueued')}
             /\ Len(batch'[l]) = Min(concurrency, Len(batch'[l]) + Len(queue'))]_vars

C26_Witness ==
    /\ concurrency = 1
    /\ queue = <<3>>
    /\ \E l \in Loops : /\ loopPhase[l] = "batch" /\ batch[l] = <<2>>
                          /\ results[l] = <<"sending">>

\* the sendFunction invocations for m that have not returned
Sending(m) ==
    {p \in Loops \X (1..MaxMsgs) :
        /\ p[2] \in DOMAIN batch[p[1]]
        /\ batch[p[1]][p[2]] = m
        /\ results[p[1]][p[2]] = "sending"}
Occurrences(q, m) == Cardinality({i \in DOMAIN q : q[i] = m})

\* C27: an item is never in two places at once: it is in the backlog (at
\* most once), or dispatched and unsettled, or finished; and the Send Adapter
\* is never running twice for the same item.
C27_NoDuplicateSend ==
    \A m \in Msg :
        /\ Occurrences(queue, m) <= 1
        /\ Cardinality(Sending(m)) <= 1
        /\ ~(m \in Range(queue) /\ m \in Unsettled)
        /\ ~(m \in Range(queue) /\ Terminal(m))
        /\ ~(m \in Unsettled /\ Terminal(m))

C27_Witness ==
    /\ attempts[1] = 2 /\ sendFailures[1] = 1
    /\ Cardinality(Sending(1)) = 1
    /\ 2 \in Range(queue)

\* the step in which the retry delay of the i-th item of loop l's batch ends
Reinserted(l, i) ==
    /\ i \in DOMAIN results[l]
    /\ results[l][i] = "retryWait"
    /\ results'[l] # <<>> /\ results'[l][i] = "rejectedRetry"
\* in q, the items already attempted come before the never attempted ones
RetriedFirst(q) ==
    \A i, j \in DOMAIN q : (i < j /\ attempts[q[j]] > 0) => attempts[q[i]] > 0

\* C28: an item whose send failed with retries left goes back to the front of
\* the backlog when its retry delay ends, and is dispatched again no later
\* than any item never attempted, whenever that item was enqueued.
C28_RetryFirst ==
    [][/\ \A l \in Loops : \A i \in 1..MaxMsgs :
             Reinserted(l, i) => (queue' # <<>> /\ Head(queue') = batch[l][i])
       /\ RetriedFirst(queue)'
       /\ \A l \in Loops : Dispatches(l) =>
             /\ RetriedFirst(batch[l])'
             /\ (\E n \in Range(batch'[l]) : attempts[n] = 0) =>
                   \A m \in Range(queue') : attempts'[m] = 0]_vars

C28_Witness ==
    /\ concurrency = 1
    /\ sendFailures[1] = 1 /\ attempts[1] = 2
    /\ \E l \in Loops : /\ batch[l] = <<1>>
                          /\ results[l] = <<"sending">>
    /\ queue = <<2, 3>> /\ attempts[2] = 0 /\ attempts[3] = 0

\* how often sendFunction has been called for m
Invocations(m) ==
    sendFailures[m] + Cardinality(Sending(m))
        + (IF fate[m] = "sent" THEN 1 ELSE 0)
\* m is handed to processMessage in this step
Dispatched(m) == \E l \in Loops : Dispatches(l) /\ m \in Range(batch'[l])

\* attempts is 0 until the first dispatch, grows by one with each dispatch and
\* by nothing else, never decreases and stays within cap
AttemptsWithin(cap) ==
    \A m \in Msg :
        /\ ~Enqueued(m)' => attempts'[m] = 0
        /\ attempts'[m] = attempts[m] + (IF Dispatched(m) THEN 1 ELSE 0)
        /\ attempts'[m] = Invocations(m)'
        /\ attempts'[m] <= cap

\* C29 as stated: attempts starts at 0, grows by exactly one per dispatch,
\* never decreases and never exceeds maxRetries, whatever maxRetries is
\* configured to.
C29_AttemptsCapped == [][AttemptsWithin(maxRetries)]_vars

\* C29: attempts starts at 0, grows by exactly one per dispatch, never
\* decreases and never exceeds maxRetries when maxRetries is at least 1; an
\* item is always attempted once, so the cap is 1 when maxRetries is 0.
C29_AttemptsCappedFromOne ==
    [][AttemptsWithin(IF maxRetries >= 1 THEN maxRetries ELSE 1)]_vars

C29_Witness ==
    /\ maxRetries = 2
    /\ attempts[1] = 2 /\ sendFailures[1] = 2 /\ fate[1] = "failed"

\* C30: clear() does not cancel the retry of an item already dispatched: the
\* item's pending send and retry delay are untouched by clear(), the item is
\* re-inserted when its delay ends even into an emptied backlog, and the loop
\* dispatches it again from there.
C30_ClearKeepsRetry ==
    [][/\ Clear => UNCHANGED <<batch, results, loopPhase, processing, attempts>>
       /\ \A l \in Loops : \A i \in 1..MaxMsgs :
             Reinserted(l, i) =>
                 /\ queue' = <<batch[l][i]>> \o queue
                 /\ processing'
       /\ (DelayTimer /\ queue # <<>>) =>
             /\ processing'
             /\ \E l \in Loops : /\ Dispatches(l)
                                   /\ batch'[l][1] = Head(queue)
                                   /\ results'[l][1] = "sending"
             /\ attempts'[Head(queue)] = attempts[Head(queue)] + 1]_vars

C30_Witness ==
    /\ messagesQueued = 2 /\ Discarded(2) /\ count = 1
    /\ attempts[1] = 1 /\ sendFailures[1] = 1
    /\ queue = <<1>>
    /\ \E l \in Loops : /\ loopPhase[l] = "delay" /\ batch[l] = <<1>>
                          /\ results[l] = <<"rejectedRetry">>

\* some item of loop l's batch is still being sent or in its retry delay
Outstanding(l) ==
    \E i \in DOMAIN results[l] : results[l][i] \in {"sending", "retryWait"}
InRetryDelay == \E l \in Loops : \E i \in DOMAIN results[l] :
                   results[l][i] = "retryWait"

\* C31: a batch is dispatched only when no item of an earlier batch is
\* outstanding and that batch's inter-batch delay has elapsed; a retried item
\* settles only with its re-insertion after the retry delay; while an item is
\* in its retry delay nothing is dispatched and the processing flag stays set.
C31_BatchPacing ==
    [][/\ \A l \in Loops : Dispatches(l) =>
             /\ \A k \in Loops : ~Outstanding(k)
             /\ \A k \in Loops : loopPhase[k] = "delay" => (DelayTimer /\ k = l)
       /\ \A l \in Loops :
             (loopPhase[l] = "batch" /\ loopPhase'[l] = "delay") =>
                 \A i \in DOMAIN results'[l] :
                     results'[l][i] \notin {"sending", "retryWait"}
       /\ \A l \in Loops : \A i \in DOMAIN results[l] :
             (results[l][i] # "rejectedRetry" /\ i \in DOMAIN results'[l]
                  /\ results'[l][i] = "rejectedRetry") =>
                 /\ results[l][i] = "retryWait"
                 /\ Head(queue') = batch[l][i]
       /\ InRetryDelay =>
             /\ processing /\ processing'
             /\ attempts' = attempts
             /\ \A l \in Loops : ~Dispatches(l)]_vars

C31_Witness ==
    /\ concurrency = 1
    /\ processing
    /\ queue = <<2, 3>>
    /\ \E l \in Loops : /\ loopPhase[l] = "batch" /\ batch[l] = <<1>>
                          /\ results[l] = <<"retryWait">>

\* the phase becomes Ready in this step
EntersReady == ~PhaseReady /\ PhaseReady'

\* C32: every transition into Ready is taken from a state in which an
\* initialization attempt is in flight and is the recorded pending
\* initialization; Ready is never entered after an event has reset the state.
C32_ReadyOnlyFromInitializing ==
    [][EntersReady =>
          \E a \in Attempt : InFlight(a) /\ initializationPromise = a]_vars

\* the session created by attempt a emits 'ready' in this step, after the
\* attempt has called client.initialize() and before it has ended
ReadyDuring(a) ==
    /\ initPc[a] \in {"bringup", "waitReady"}
    /\ clientState[a] = "starting"
    /\ clientState'[a] = "authed"

\* C33: a ready signal emitted after the attempt has begun the session
\* bring-up and before its timeout, the bring-up call having returned or not,
\* resolves the attempt to Ready with the handle of that session.
C33_ReadyNeverMissed ==
    [][\A a \in Attempt : ReadyDuring(a) =>
          /\ initResult'[a] = "ok"
          /\ initValue'[a] = a
          /\ isInitialized']_vars

\* the lifetime timer armed by attempt a runs (part of) its callback
TimerActs(a) == timer[a] # "none" /\ timer'[a] # timer[a]

\* the session of attempt a has been ended and a later connect() has
\* established another one, which is Initializing or Ready
Superseded(a) ==
    /\ clientState[a] \in {"disconnected", "closed", "loggedOut"}
    /\ client # a
    /\ client # 0
    /\ InFlight(client) \/ PhaseReady

\* C34: a lifetime timer acts only on the session whose initialization armed
\* it: firing after that session was ended and a new one established, it does
\* not destroy the new session and does not reset the state.
C34_TimerOwnSession ==
    [][\A a \in Attempt : (TimerActs(a) /\ Superseded(a)) =>
          /\ isInitialized' = isInitialized
          /\ initializationPromise' = initializationPromise
          /\ clientState'[client] = clientState[client]]_vars

\* the items clear() removes in this step
Cleared == IF Clear THEN Range(queue) ELSE {}

\* C35: clear() neither resolves nor rejects the handle of an item it
\* removes, and the handle is never settled afterwards: a discarded item's
\* handle is pending for good and the item is counted in neither
\* messagesSent nor messagesFailed.
C35_DiscardedStayPending ==
    /\ [][\A m \in Cleared : handle'[m] = handle[m]]_vars
    /\ [](\A m \in Msg : Discarded(m) =>
              /\ handle[m] = "pending"
              /\ Settles(m) = 0
              /\ messagesSent + messagesFailed
                     <= Cardinality({k \in Msg : Enqueued(k) /\ ~Discarded(k)}))

====
